---- MODULE Spec2Model ----
(***************************************************************************)
(* The typing session engine of zentype (client/internal/game/game.go):   *)
(* the word buffer, the three-line display window, the keystroke state    *)
(* machine and the statistics, driven by calls and by the passing of      *)
(* wall-clock time.                                                        *)
(*                                                                         *)
(* A string is a sequence of one-character strings; all text is ASCII, so *)
(* byte length and rune count coincide.  Time is counted in clock ticks,  *)
(* TicksPerSecond of them to a second.                                     *)
(***************************************************************************)
EXTENDS Integers, Sequences, FiniteSets, TLC

VARIABLES
    game,       \* the *TypingGame of the session (a record of its fields)
    now,        \* the wall clock, in ticks
    source,     \* which word list the external word source draws from
    lineBase,   \* history: GlobalPos right after the latest line advance
    clean,      \* history: every character typed so far was the expected one
    cli,        \* the command that was run: its --time value and its outcome
    ui          \* the ui.Model around the session, its pending ticks and its
                \* asynchronous commands

vars == <<game, now, source, lineBase, clean, cli, ui>>

----------------------------------------------------------------------------
(* Program constants *)

LinesPerView == 3
CharsPerLine == 50
InitialWords == 200
GrowWords == 100
LowWater == 50
MinDuration == 10
MaxDuration == 300
DefaultDuration == 60

(* Bounds of the model *)

TicksPerSecond == 2     \* resolution of the clock
MaxIdle == 1            \* ticks that may pass before the first keystroke
MaxOver == 2            \* ticks explored after the duration has elapsed
MaxTyped == 5           \* cap on GlobalPos
MaxMistakes == 2        \* cap on TotalErrorsMade
MaxConsumed == 200      \* cap on WordsTyped where whole lines are typed
UiMaxTyped == 1         \* cap on GlobalPos and on TotalErrorsMade under the
                        \* presentation layer
UiEarly == 0            \* ticks after the start for which the clock is read
UiOver == 1             \* ticks after time-up for which the clock is read
MaxTicks == 2           \* cap on the tick messages scheduled at a time
MaxRuns == 1            \* cap on the restarts from the results screen
MaxRank == 1            \* the ranks the server answers with: 0..MaxRank

Space == " "
Keys == {"a", "b", Space}

----------------------------------------------------------------------------
(* The word source (external collaborator): a word list repeated forever. *)

LongWord == [i \in 1..(CharsPerLine - 3) |-> "a"]

\* A word that fits on no line.
OverLongWord == [i \in 1..(CharsPerLine + 1) |-> "a"]

Sources == {1, 2}

\* Word lists of short words, which put many words on a line.
ShortWordSources == {2, 3}

\* Word lists with a word that fits on no line, as a later word and as the
\* first one.
OverLongSources == {4, 5}

WordList(s) ==
    IF s = 1 THEN << <<"a">>, <<"b">>, LongWord >>
    ELSE IF s = 2 THEN << <<"a", "b">>, <<"b", "a">> >>
    ELSE IF s = 3 THEN << <<"a">> >>
    ELSE IF s = 4 THEN << <<"a">>, OverLongWord, <<"b">> >>
    ELSE << OverLongWord, <<"a">> >>

\* GenerateWords(count) when `drawn` words have been drawn before.
GenerateWords(s, drawn, count) ==
    [i \in 1..count |-> WordList(s)[((drawn + i - 1) % Len(WordList(s))) + 1]]

----------------------------------------------------------------------------
(* The line wrapper *)

\* Mutant of FillLine: the first word of a line is placed whatever its
\* length.
RECURSIVE FillLinePlacesFirst(_, _, _)
FillLinePlacesFirst(words, wordIndex, currentLine) ==
    IF wordIndex < Len(words)
    THEN LET word == words[wordIndex + 1]
             spaceNeeded == IF Len(currentLine) > 0 THEN 1 ELSE 0
         IN  IF \/ Len(currentLine) = 0
                \/ Len(currentLine) + spaceNeeded + Len(word) <= CharsPerLine
             THEN FillLinePlacesFirst(words, wordIndex + 1,
                                      (IF Len(currentLine) > 0
                                       THEN currentLine \o <<Space>>
                                       ELSE currentLine) \o word)
             ELSE [line |-> currentLine, next |-> wordIndex]
    ELSE [line |-> currentLine, next |-> wordIndex]

\* Mutant of FillLine: a word that fills the line exactly does not fit.
RECURSIVE FillLineStrict(_, _, _)
FillLineStrict(words, wordIndex, currentLine) ==
    IF wordIndex < Len(words)
    THEN LET word == words[wordIndex + 1]
             spaceNeeded == IF Len(currentLine) > 0 THEN 1 ELSE 0
         IN  IF Len(currentLine) + spaceNeeded + Len(word) < CharsPerLine
             THEN FillLineStrict(words, wordIndex + 1,
                                 (IF Len(currentLine) > 0
                                  THEN currentLine \o <<Space>>
                                  ELSE currentLine) \o word)
             ELSE [line |-> currentLine, next |-> wordIndex]
    ELSE [line |-> currentLine, next |-> wordIndex]

\* The inner loop of generateDisplayLines: fill one line from wordIndex
\* (0-based) on; yields the line and the index of the first word not placed.
RECURSIVE FillLine(_, _, _)
FillLine(words, wordIndex, currentLine) ==
    IF wordIndex < Len(words)
    THEN LET word == words[wordIndex + 1]
             spaceNeeded == IF Len(currentLine) > 0 THEN 1 ELSE 0
         IN  IF Len(currentLine) + spaceNeeded + Len(word) <= CharsPerLine
             THEN FillLine(words, wordIndex + 1,
                           (IF Len(currentLine) > 0
                            THEN currentLine \o <<Space>>
                            ELSE currentLine) \o word)
             ELSE [line |-> currentLine, next |-> wordIndex]
    ELSE [line |-> currentLine, next |-> wordIndex]

\* The outer loop: at most LinesPerView lines while words remain.
RECURSIVE FillLines(_, _, _, _)
FillLines(words, wordIndex, lineNum, lines) ==
    IF lineNum < LinesPerView /\ wordIndex < Len(words)
    THEN LET r == FillLine(words, wordIndex, << >>)
         IN  FillLines(words, r.next, lineNum + 1, Append(lines, r.line))
    ELSE lines

\* Mutant of PadLines: the window is not padded.
PadLinesNone(lines) == lines

\* The padding loop: empty lines up to LinesPerView.
RECURSIVE PadLines(_)
PadLines(lines) ==
    IF Len(lines) < LinesPerView THEN PadLines(Append(lines, << >>)) ELSE lines

\* Mutant of generateDisplayLines: the window starts at the first word of
\* the buffer.
generateDisplayLinesFromStart(g) ==
    [g EXCEPT !.DisplayLines = PadLines(FillLines(g.AllWords, 0, 0, << >>))]

generateDisplayLines(g) ==
    [g EXCEPT !.DisplayLines = PadLines(FillLines(g.AllWords, g.WordsTyped, 0, << >>))]

\* len(strings.Fields(line)): the number of maximal runs of non-space characters.
CountFields(line) ==
    Cardinality({i \in 1..Len(line) :
                    line[i] # Space /\ (i = 1 \/ line[i - 1] = Space)})

----------------------------------------------------------------------------
(* The session *)

NewTypingGame(duration, s) ==
    generateDisplayLines(
        [AllWords        |-> GenerateWords(s, 0, InitialWords),
         DisplayLines    |-> << >>,
         UserInput       |-> << >>,
         CurrentPos      |-> 0,
         GlobalPos       |-> 0,
         StartTime       |-> 0,
         Duration        |-> duration,
         IsStarted       |-> FALSE,
         IsFinished      |-> FALSE,
         Errors          |-> {},
         TotalErrorsMade |-> 0,
         WordsTyped      |-> 0])

Start(g, t) ==
    IF ~g.IsStarted
    THEN [g EXCEPT !.StartTime = t, !.IsStarted = TRUE]
    ELSE g

\* time.Since(g.StartTime), in ticks
Since(g, t) == t - g.StartTime

\* Mutant of IsTimeUp: the duration must be exceeded, not reached.
IsTimeUpStrict(g, t) ==
    IF ~g.IsStarted THEN FALSE
    ELSE Since(g, t) > g.Duration * TicksPerSecond

IsTimeUp(g, t) ==
    IF ~g.IsStarted THEN FALSE
    ELSE Since(g, t) >= g.Duration * TicksPerSecond

\* Mutant of shiftLines: the buffer grows already at LowWater words left.
shiftLinesGrowsAtLowWater(g, s) ==
    LET g1 == [g EXCEPT !.WordsTyped = @ + CountFields(g.DisplayLines[1]),
                        !.CurrentPos = 0]
        g2 == generateDisplayLines(g1)
    IN  IF g2.WordsTyped >= Len(g2.AllWords) - LowWater
        THEN [g2 EXCEPT !.AllWords =
                  @ \o GenerateWords(s, Len(g2.AllWords), GrowWords)]
        ELSE g2

\* Mutant of shiftLines: a line advance consumes one word.
shiftLinesOneWord(g, s) ==
    LET g1 == [g EXCEPT !.WordsTyped = @ + 1,
                        !.CurrentPos = 0]
        g2 == generateDisplayLines(g1)
    IN  IF g2.WordsTyped > Len(g2.AllWords) - LowWater
        THEN [g2 EXCEPT !.AllWords =
                  @ \o GenerateWords(s, Len(g2.AllWords), GrowWords)]
        ELSE g2

shiftLines(g, s) ==
    LET g1 == [g EXCEPT !.WordsTyped = @ + CountFields(g.DisplayLines[1]),
                        !.CurrentPos = 0]
        g2 == generateDisplayLines(g1)
    IN  IF g2.WordsTyped > Len(g2.AllWords) - LowWater
        THEN [g2 EXCEPT !.AllWords =
                  @ \o GenerateWords(s, Len(g2.AllWords), GrowWords)]
        ELSE g2

\* Mutant of AtLineEnd: any character advances the line.
AtLineEndAnyAdvances(g, char, s) ==
    shiftLines([g EXCEPT !.UserInput = Append(@, char),
                         !.CurrentPos = @ + 1,
                         !.GlobalPos = @ + 1], s)

\* Mutant of AtLineEnd: a character other than the space is typed past the
\* end of the line.
AtLineEndOvertype(g, char, s) ==
    IF char = Space
    THEN shiftLines([g EXCEPT !.UserInput = Append(@, char),
                              !.CurrentPos = @ + 1,
                              !.GlobalPos = @ + 1], s)
    ELSE [g EXCEPT !.UserInput = Append(@, char),
                   !.CurrentPos = @ + 1,
                   !.GlobalPos = @ + 1]

\* Mutant of AtLineEnd: the space that ends the line is counted as a mistake.
AtLineEndCountsMistake(g, char, s) ==
    IF char = Space
    THEN shiftLines([g EXCEPT !.UserInput = Append(@, char),
                              !.Errors = @ \cup {g.GlobalPos},
                              !.TotalErrorsMade = @ + 1,
                              !.CurrentPos = @ + 1,
                              !.GlobalPos = @ + 1], s)
    ELSE g

\* AddCharacter with the cursor just past the end of the line.
AtLineEnd(g, char, s) ==
    IF char = Space
    THEN shiftLines([g EXCEPT !.UserInput = Append(@, char),
                              !.CurrentPos = @ + 1,
                              !.GlobalPos = @ + 1], s)
    ELSE g

\* Mutant of NormalCharacter: the mistake is recorded at the position after
\* the increment.
NormalCharacterMarksNext(g, char) ==
    LET lineText == g.DisplayLines[1]
        g1 == [g EXCEPT !.UserInput = Append(@, char)]
        g2 == IF lineText[g.CurrentPos + 1] # char
              THEN [g1 EXCEPT !.Errors = @ \cup {g.GlobalPos + 1},
                              !.TotalErrorsMade = @ + 1]
              ELSE g1
    IN  [g2 EXCEPT !.CurrentPos = @ + 1, !.GlobalPos = @ + 1]

\* AddCharacter with the cursor on a character of the line.
NormalCharacter(g, char) ==
    LET lineText == g.DisplayLines[1]
        g1 == [g EXCEPT !.UserInput = Append(@, char)]
        g2 == IF lineText[g.CurrentPos + 1] # char
              THEN [g1 EXCEPT !.Errors = @ \cup {g.GlobalPos},
                              !.TotalErrorsMade = @ + 1]
              ELSE g1
    IN  [g2 EXCEPT !.CurrentPos = @ + 1, !.GlobalPos = @ + 1]

AddCharacter(g, char, t, s) ==
    LET g0 == IF ~g.IsStarted THEN Start(g, t) ELSE g
        lineText == g0.DisplayLines[1]
    IN  IF g0.IsFinished \/ IsTimeUp(g0, t)
        THEN [g0 EXCEPT !.IsFinished = TRUE]
        ELSE IF g0.CurrentPos = Len(lineText)
        THEN AtLineEnd(g0, char, s)
        ELSE IF g0.CurrentPos < Len(lineText) /\ g0.CurrentPos >= 0
        THEN NormalCharacter(g0, char)
        ELSE g0

\* The session after the call, and the value returned.
HandleEnterKey(g, t, s) ==
    IF g.IsFinished \/ IsTimeUp(g, t)
    THEN [g |-> g, ret |-> FALSE]
    ELSE IF g.CurrentPos = Len(g.DisplayLines[1])
    THEN [g |-> shiftLines([g EXCEPT !.UserInput = Append(@, Space),
                                     !.CurrentPos = @ + 1,
                                     !.GlobalPos = @ + 1], s),
          ret |-> TRUE]
    ELSE [g |-> g, ret |-> FALSE]

\* Mutant of RemoveCharacter: removing a marked mistake takes it off the
\* counter too.
RemoveCharacterForgives(g) ==
    IF Len(g.UserInput) > 0 /\ g.CurrentPos > 0
    THEN [g EXCEPT !.UserInput = SubSeq(@, 1, Len(@) - 1),
                   !.CurrentPos = @ - 1,
                   !.GlobalPos = @ - 1,
                   !.Errors = @ \ {g.GlobalPos - 1},
                   !.TotalErrorsMade =
                       IF (g.GlobalPos - 1) \in g.Errors THEN @ - 1 ELSE @]
    ELSE g

\* Mutant of RemoveCharacter: the cursor position is not checked.
RemoveCharacterNoPosGuard(g) ==
    IF Len(g.UserInput) > 0
    THEN [g EXCEPT !.UserInput = SubSeq(@, 1, Len(@) - 1),
                   !.CurrentPos = @ - 1,
                   !.GlobalPos = @ - 1,
                   !.Errors = @ \ {g.GlobalPos - 1}]
    ELSE g

\* Mutant of RemoveCharacter: the error mark is left in place.
RemoveCharacterKeepsMark(g) ==
    IF Len(g.UserInput) > 0 /\ g.CurrentPos > 0
    THEN [g EXCEPT !.UserInput = SubSeq(@, 1, Len(@) - 1),
                   !.CurrentPos = @ - 1,
                   !.GlobalPos = @ - 1]
    ELSE g

RemoveCharacter(g) ==
    IF Len(g.UserInput) > 0 /\ g.CurrentPos > 0
    THEN [g EXCEPT !.UserInput = SubSeq(@, 1, Len(@) - 1),
                   !.CurrentPos = @ - 1,
                   !.GlobalPos = @ - 1,
                   !.Errors = @ \ {g.GlobalPos - 1}]
    ELSE g

----------------------------------------------------------------------------
(* Statistics.  A float64 is modelled by the exact fraction it approximates, *)
(* in lowest terms.                                                          *)

RECURSIVE GCD(_, _)
GCD(a, b) == IF b = 0 THEN a ELSE GCD(b, a % b)

Abs(n) == IF n < 0 THEN -n ELSE n

Ratio(n, d) ==
    LET k == GCD(Abs(n), d) IN [num |-> n \div k, den |-> d \div k]

Zero == Ratio(0, 1)

\* len([]rune(g.GetDisplayText())): the lines joined by single spaces.
RECURSIVE JoinedLen(_)
JoinedLen(lines) ==
    IF Len(lines) = 0 THEN 0
    ELSE IF Len(lines) = 1 THEN Len(lines[1])
    ELSE Len(lines[1]) + 1 + JoinedLen(Tail(lines))

\* Mutant of timeForCalculation: the wall clock also after time is up.
timeForCalculationElapsed(g, t) == Since(g, t)

\* The time the statistics are computed over, in ticks.
timeForCalculation(g, t) ==
    IF IsTimeUp(g, t) THEN g.Duration * TicksPerSecond ELSE Since(g, t)

\* Mutant of wpm: net words per minute, of the correct characters only.
wpmNet(g, t) ==
    IF timeForCalculation(g, t) > 0
    THEN Ratio((g.GlobalPos - g.TotalErrorsMade) * 60 * TicksPerSecond,
               5 * timeForCalculation(g, t))
    ELSE Zero

\* float64(GlobalPos) / 5 / minutes, where minutes is
\* timeForCalculation / (60 * TicksPerSecond).
wpm(g, t) ==
    IF timeForCalculation(g, t) > 0
    THEN Ratio(g.GlobalPos * 60 * TicksPerSecond, 5 * timeForCalculation(g, t))
    ELSE Zero

correctChars(g) == g.GlobalPos - g.TotalErrorsMade

accuracy(g) ==
    IF g.GlobalPos > 0
    THEN Ratio(correctChars(g) * 100, g.GlobalPos)
    ELSE Zero

\* Mutant of NotBelowZero: no clamp.
NotBelowZeroNoClamp(x) == x

\* if x < 0 { x = 0 }
NotBelowZero(x) == IF x.num < 0 THEN Zero ELSE x

GetStats(g, t) ==
    IF ~g.IsStarted
    THEN [WPM |-> Zero, Accuracy |-> Zero, CharactersTyped |-> 0,
          CorrectChars |-> 0, TotalChars |-> 0, TimeElapsed |-> 0,
          IsComplete |-> FALSE, UncorrectedErrors |-> 0]
    ELSE [WPM               |-> NotBelowZero(wpm(g, t)),
          Accuracy          |-> NotBelowZero(accuracy(g)),
          CharactersTyped   |-> g.GlobalPos,
          CorrectChars      |-> correctChars(g),
          TotalChars        |-> JoinedLen(g.DisplayLines),
          TimeElapsed       |-> timeForCalculation(g, t),
          IsComplete        |-> g.IsFinished,
          UncorrectedErrors |-> Cardinality(g.Errors)]

\* Mutant of GetStatsEffect: reading the statistics after time is up marks
\* the session finished.
GetStatsMarksFinished(g, t) ==
    IF IsTimeUp(g, t) THEN [g EXCEPT !.IsFinished = TRUE] ELSE g

\* The session as a GetStats call leaves it: GetStats and the IsTimeUp and
\* GetDisplayText it calls assign no field.
GetStatsEffect(g, t) == g

\* Mutant of GetRemainingTime: no clamp at 0.
GetRemainingTimeNoClamp(g, t) ==
    IF ~g.IsStarted THEN g.Duration
    ELSE g.Duration - (Since(g, t) \div TicksPerSecond)

\* int(time.Since(g.StartTime).Seconds()) is the whole seconds elapsed.
GetRemainingTime(g, t) ==
    IF ~g.IsStarted THEN g.Duration
    ELSE LET elapsed == Since(g, t) \div TicksPerSecond
             remaining == g.Duration - elapsed
         IN  IF remaining < 0 THEN 0 ELSE remaining

\* TypingStats{}
ZeroStats ==
    [WPM |-> Zero, Accuracy |-> Zero, CharactersTyped |-> 0,
     CorrectChars |-> 0, TotalChars |-> 0, TimeElapsed |-> 0,
     IsComplete |-> FALSE, UncorrectedErrors |-> 0]

----------------------------------------------------------------------------
(* The model of the presentation layer (ui.Model), without its session,    *)
(* which is the variable game.  Beside the fields of the struct it holds   *)
(* what the event loop holds for it: the tick messages scheduled and the   *)
(* asynchronous commands that have not delivered their message yet.        *)

\* No model exists: the command returned an error, or none has run.
NoModel == [exists |-> FALSE]

\* ui.NewModel, and the tick that Init schedules.  run counts the sessions
\* this model has had (history).
NewModel(duration, authenticated) ==
    [showResults   |-> FALSE,
     finalStats    |-> ZeroStats,
     duration      |-> duration,
     userRank      |-> 0,
     submitting    |-> FALSE,
     submitError   |-> "",
     authenticated |-> authenticated,
     ticks         |-> 1,
     cmds          |-> {},
     run           |-> 0,
     quit          |-> FALSE]

\* The duration whose results the client submits (ui.go), and the server's
\* leaderboard rules (server/main.go).
LeaderboardDuration == 60
TargetDuration == 60
MinAccuracy == 85
MaxWPM == 300

\* m.submitScore(): the command holds a copy of the model, so the statistics
\* and the duration it sends are those at the time of the tick.
submitScore(u) ==
    [kind |-> "submitScore", run |-> u.run, stats |-> u.finalStats,
     duration |-> u.duration]

\* m.getRankCmd()
getRankCmd(u) ==
    [kind |-> "getRank", run |-> u.run, stats |-> u.finalStats,
     duration |-> u.duration]

\* APIServer.submitScore: the validation of an entry of an authenticated
\* user; TRUE when the score is inserted.
ServerAccepts(entry) ==
    /\ entry.duration = TargetDuration
    /\ entry.stats.WPM.num >= 0
    /\ entry.stats.WPM.num <= MaxWPM * entry.stats.WPM.den
    /\ entry.stats.Accuracy.num >= 0
    /\ entry.stats.Accuracy.num <= 100 * entry.stats.Accuracy.den
    /\ entry.stats.Accuracy.num >= MinAccuracy * entry.stats.Accuracy.den

\* The condition of the tick handler for submitting the score.
SubmitWanted(u) ==
    u.authenticated /\ u.duration = LeaderboardDuration /\ ~u.submitting

\* Mutant of tickMsg: a tick before time is up schedules no next tick.
tickMsgStopsTicking(u, g, t) ==
    IF ~u.showResults /\ IsTimeUp(g, t) /\ g.IsStarted
    THEN LET u1 == [u EXCEPT !.finalStats = GetStats(g, t),
                             !.showResults = TRUE,
                             !.ticks = @ - 1]
         IN  IF SubmitWanted(u1)
             THEN [u1 EXCEPT !.submitting = TRUE,
                             !.cmds = @ \cup {submitScore(u1)}]
             ELSE u1
    ELSE [u EXCEPT !.ticks = @ - 1]

\* Update(tickMsg): the model after the tick message; the tick is consumed
\* and, while the test runs, the next one is scheduled.
tickMsg(u, g, t) ==
    IF ~u.showResults
    THEN IF IsTimeUp(g, t) /\ g.IsStarted
         THEN LET u1 == [u EXCEPT !.finalStats = GetStats(g, t),
                                  !.showResults = TRUE,
                                  !.ticks = @ - 1]
              IN  IF SubmitWanted(u1)
                  THEN [u1 EXCEPT !.submitting = TRUE,
                                  !.cmds = @ \cup {submitScore(u1)}]
                  ELSE u1
         ELSE u
    ELSE [u EXCEPT !.ticks = @ - 1]

\* restartTest: a new session, and the fields of the run reset.
restartTest(u) ==
    [u EXCEPT !.showResults = FALSE,
              !.finalStats = ZeroStats,
              !.userRank = 0,
              !.submitting = FALSE,
              !.submitError = "",
              !.run = @ + 1]

\* NewTypingGameWithWords(duration, words): a new session on the same words.
NewTypingGameWithWords(duration, words) ==
    generateDisplayLines(
        [AllWords        |-> words,
         DisplayLines    |-> << >>,
         UserInput       |-> << >>,
         CurrentPos      |-> 0,
         GlobalPos       |-> 0,
         StartTime       |-> 0,
         Duration        |-> duration,
         IsStarted       |-> FALSE,
         IsFinished      |-> FALSE,
         Errors          |-> {},
         TotalErrorsMade |-> 0,
         WordsTyped      |-> 0])

\* Update(scoreSubmittedMsg{entry}) with entry.Rank = rank.
scoreSubmittedMsg(u, rank) ==
    LET u1 == [u EXCEPT !.submitting = FALSE, !.userRank = rank]
    IN  IF u1.userRank = 0
        THEN [u1 EXCEPT !.cmds = @ \cup {getRankCmd(u1)}]
        ELSE u1

\* renderResults: what the rank section of the results screen shows.
RankShown(u) ==
    IF u.duration # LeaderboardDuration THEN "none"
    ELSE IF u.submitting THEN "..."
    ELSE IF u.userRank > 0 THEN "#"
    ELSE IF u.submitError # "" THEN "error"
    ELSE IF ~u.authenticated THEN "n/a"
    ELSE IF u.userRank = 0 THEN "n/a"
    ELSE IF u.finalStats.Accuracy.num < MinAccuracy * u.finalStats.Accuracy.den
    THEN "85%+"
    ELSE "none"

\* Update(userRankMsg{rank})
userRankMsg(u, rank) ==
    IF rank > 0 THEN [u EXCEPT !.userRank = rank] ELSE u

\* Update(submitErrorMsg{error})
submitErrorMsg(u, error) ==
    [u EXCEPT !.submitting = FALSE, !.submitError = error]

----------------------------------------------------------------------------
(* Initial state and steps *)

\* No session exists: no command has created one.
NoSession == [exists |-> FALSE]

\* The outcome of a command: the error it returned, or the session of the
\* model it created (ui.NewModel).
RunOutcome(rejected, duration, s) ==
    IF rejected
    THEN [err |-> TRUE, game |-> NoSession]
    ELSE [err |-> FALSE, game |-> NewTypingGame(duration, s)]

\* zentype --time <duration>
runDirectTypingTest(duration, s) ==
    RunOutcome(duration < MinDuration \/ duration > MaxDuration, duration, s)

\* Mutant of runTypingTest: the upper limit is not checked.
runTypingTestNoUpper(startDuration, s) ==
    RunOutcome(startDuration < MinDuration, startDuration, s)

\* zentype start --time <duration>
runTypingTest(startDuration, s) ==
    RunOutcome(startDuration < MinDuration \/ startDuration > MaxDuration,
               startDuration, s)

\* The session of `zentype start --time 10`, just created.
Init ==
    /\ source \in Sources
    /\ cli = [cmd |-> "start", duration |-> MinDuration, err |-> FALSE]
    /\ ui = NewModel(MinDuration, FALSE)
    /\ game = runTypingTest(MinDuration, source).game
    /\ now = 0
    /\ lineBase = 0
    /\ clean = TRUE

\* The character the session expects next: the one under the cursor, or the
\* space that ends the line.
Expected(g) ==
    IF g.CurrentPos < Len(g.DisplayLines[1])
    THEN g.DisplayLines[1][g.CurrentPos + 1]
    ELSE Space

\* Some line advance happened between g and h.
Advanced(g, h) == h.GlobalPos > g.GlobalPos /\ h.CurrentPos = 0

WithinBounds(h) ==
    h.GlobalPos <= MaxTyped /\ h.TotalErrorsMade <= MaxMistakes

CallAddCharacter(char) ==
    LET h == AddCharacter(game, char, now, source)
    IN  /\ WithinBounds(h)
        /\ game' = h
        /\ lineBase' = IF Advanced(game, h) THEN h.GlobalPos ELSE lineBase
        /\ clean' = (clean /\ char = Expected(game))
        /\ UNCHANGED <<now, source, cli, ui>>

CallHandleEnterKey ==
    LET r == HandleEnterKey(game, now, source)
    IN  /\ WithinBounds(r.g)
        /\ game' = r.g
        /\ lineBase' = IF r.ret THEN r.g.GlobalPos ELSE lineBase
        /\ UNCHANGED <<now, source, clean, cli, ui>>

CallRemoveCharacter ==
    /\ game' = RemoveCharacter(game)
    /\ UNCHANGED <<now, source, lineBase, clean, cli, ui>>

TimePasses ==
    /\ IF game.IsStarted
       THEN Since(game, now) < game.Duration * TicksPerSecond + MaxOver
       ELSE now < MaxIdle
    /\ now' = now + 1
    /\ UNCHANGED <<game, source, lineBase, clean, cli, ui>>

Next ==
    \/ \E char \in Keys : CallAddCharacter(char)
    \/ CallHandleEnterKey
    \/ CallRemoveCharacter
    \/ TimePasses

Spec == Init /\ [][Next]_vars

----------------------------------------------------------------------------
(* The commands: from the shell to a session.  The clock is left alone:    *)
(* what is checked here is which sessions come to exist.                   *)

DurationInputs ==
    {-1, MinDuration - 1, MinDuration, DefaultDuration, MaxDuration,
     MaxDuration + 1}

CmdInit ==
    /\ source \in Sources
    /\ cli = [cmd |-> "none", duration |-> 0, err |-> FALSE]
    /\ ui = NoModel
    /\ game = NoSession
    /\ now = 0
    /\ lineBase = 0
    /\ clean = TRUE

RunDirect(d) ==
    LET r == runDirectTypingTest(d, source)
    IN  /\ cli.cmd = "none"
        /\ cli' = [cmd |-> "root", duration |-> d, err |-> r.err]
        /\ ui' = IF r.err THEN NoModel ELSE NewModel(d, FALSE)
        /\ game' = r.game
        /\ UNCHANGED <<now, source, lineBase, clean>>

RunStart(d) ==
    LET r == runTypingTest(d, source)
    IN  /\ cli.cmd = "none"
        /\ cli' = [cmd |-> "start", duration |-> d, err |-> r.err]
        /\ ui' = IF r.err THEN NoModel ELSE NewModel(d, FALSE)
        /\ game' = r.game
        /\ UNCHANGED <<now, source, lineBase, clean>>

CmdNext ==
    \/ \E d \in DurationInputs : RunDirect(d)
    \/ \E d \in DurationInputs : RunStart(d)
    \/ /\ game # NoSession
       /\ \/ \E char \in Keys : CallAddCharacter(char)
          \/ CallHandleEnterKey
          \/ CallRemoveCharacter

SpecCmd == CmdInit /\ [][CmdNext]_vars

----------------------------------------------------------------------------
(* Whole lines typed correctly, one after the other, on word lists of      *)
(* short words, in a session of the longest duration.  The clock is left   *)
(* alone: what is checked here is the window and the buffer.               *)

DeepInit ==
    /\ source \in ShortWordSources
    /\ cli = [cmd |-> "start", duration |-> MaxDuration, err |-> FALSE]
    /\ ui = NewModel(MaxDuration, FALSE)
    /\ game = runTypingTest(MaxDuration, source).game
    /\ now = 0
    /\ lineBase = 0
    /\ clean = TRUE

TypeExpected ==
    LET h == AddCharacter(game, Expected(game), now, source)
    IN  /\ h.WordsTyped <= MaxConsumed
        /\ game' = h
        /\ lineBase' = IF Advanced(game, h) THEN h.GlobalPos ELSE lineBase
        /\ UNCHANGED <<now, source, clean, cli, ui>>

EnterAtLineEnd ==
    LET r == HandleEnterKey(game, now, source)
    IN  /\ r.ret
        /\ r.g.WordsTyped <= MaxConsumed
        /\ game' = r.g
        /\ lineBase' = r.g.GlobalPos
        /\ UNCHANGED <<now, source, clean, cli, ui>>

DeepNext ==
    \/ TypeExpected
    \/ EnterAtLineEnd
    \/ CallRemoveCharacter

SpecDeep == DeepInit /\ [][DeepNext]_vars

----------------------------------------------------------------------------
(* A session on a word list with a word that fits on no line. *)

InitOverLong ==
    /\ source \in OverLongSources
    /\ cli = [cmd |-> "start", duration |-> MinDuration, err |-> FALSE]
    /\ ui = NewModel(MinDuration, FALSE)
    /\ game = runTypingTest(MinDuration, source).game
    /\ now = 0
    /\ lineBase = 0
    /\ clean = TRUE

SpecOverLong == InitOverLong /\ [][Next]_vars

----------------------------------------------------------------------------
(* The presentation layer: one event of the event loop at a time.  The     *)
(* clock is read at a few instants of a run: at its start, UiEarly ticks   *)
(* on, and from one tick before time is up; it is counted from the         *)
(* creation of the session, since only time differences are ever read.     *)

\* Update(KeyMsg "enter"): the model and the session after it.
keyEnter(u, g, t, s) ==
    IF u.showResults
    THEN [ui |-> [restartTest(u) EXCEPT !.ticks = @ + 1],
          game |-> NewTypingGame(u.duration, s)]
    ELSE IF g.IsStarted
    THEN [ui |-> [u EXCEPT !.ticks = @ + 1],
          game |-> NewTypingGameWithWords(u.duration, g.AllWords)]
    ELSE [ui |-> u, game |-> HandleEnterKey(g, t, s).g]

\* Update(KeyMsg " ") and Update(KeyMsg of one printable character)
keyCharacter(u, g, char, t, s) ==
    IF ~u.showResults /\ ~g.IsFinished /\ ~IsTimeUp(g, t)
    THEN AddCharacter(g, char, t, s)
    ELSE g

\* Update(KeyMsg "backspace")
keyBackspace(u, g) ==
    IF ~u.showResults /\ ~g.IsFinished THEN RemoveCharacter(g) ELSE g

UiDurations == {MinDuration, LeaderboardDuration}

\* The word list under the presentation layer.
UiSources == {2}

UiInit ==
    /\ source \in UiSources
    /\ \E d \in UiDurations :
          /\ cli = [cmd |-> "start", duration |-> d, err |-> FALSE]
          /\ game = runTypingTest(d, source).game
          /\ \E a \in BOOLEAN : ui = NewModel(d, a)
    /\ now = 0
    /\ lineBase = 0
    /\ clean = TRUE

UiWithin(u, h) ==
    /\ h.GlobalPos <= UiMaxTyped
    /\ h.TotalErrorsMade <= UiMaxTyped
    /\ u.ticks <= MaxTicks
    /\ u.run <= MaxRuns

UiKeyCharacter(char) ==
    LET h == keyCharacter(ui, game, char, now, source)
    IN  /\ ~ui.quit
        /\ UiWithin(ui, h)
        /\ game' = h
        /\ lineBase' = IF Advanced(game, h) THEN h.GlobalPos ELSE lineBase
        /\ clean' = IF h = game THEN clean ELSE (clean /\ char = Expected(game))
        /\ UNCHANGED <<now, source, cli, ui>>

UiKeyBackspace ==
    /\ ~ui.quit
    /\ game' = keyBackspace(ui, game)
    /\ UNCHANGED <<now, source, lineBase, clean, cli, ui>>

UiKeyEnter ==
    LET r == keyEnter(ui, game, now, source)
    IN  /\ ~ui.quit
        /\ UiWithin(r.ui, r.game)
        /\ ui' = r.ui
        /\ game' = r.game
        /\ lineBase' = IF r.ui.ticks > ui.ticks THEN 0
                        ELSE IF Advanced(game, r.game) THEN r.game.GlobalPos
                        ELSE lineBase
        /\ clean' = (r.ui.ticks > ui.ticks \/ clean)
        /\ now' = IF r.ui.ticks > ui.ticks THEN 0 ELSE now
        /\ UNCHANGED <<source, cli>>

\* Update(KeyMsg "ctrl+c" or "esc"): tea.Quit ends the event loop, and what
\* was scheduled or under way is never delivered.
UiKeyQuit ==
    /\ ~ui.quit
    /\ ui' = [ui EXCEPT !.quit = TRUE, !.ticks = 0, !.cmds = {}]
    /\ UNCHANGED <<game, now, source, lineBase, clean, cli>>

UiTick ==
    /\ ~ui.quit
    /\ ui.ticks > 0
    /\ ui' = tickMsg(ui, game, now)
    /\ UNCHANGED <<game, now, source, lineBase, clean, cli>>

\* The submitScore command ends: the server inserted the score and the rank
\* came back, or the request failed or was refused.
UiScoreSubmitted(c, delivered, rank) ==
    /\ ~ui.quit
    /\ c \in ui.cmds
    /\ c.kind = "submitScore"
    /\ ui' = LET u == [ui EXCEPT !.cmds = @ \ {c}]
              IN  IF delivered /\ ServerAccepts(c)
                  THEN scoreSubmittedMsg(u, rank)
                  ELSE submitErrorMsg(u, "error")
    /\ UNCHANGED <<game, now, source, lineBase, clean, cli>>

\* The getRankCmd command ends.
UiUserRank(c, rank) ==
    /\ ~ui.quit
    /\ c \in ui.cmds
    /\ c.kind = "getRank"
    /\ ui' = userRankMsg([ui EXCEPT !.cmds = @ \ {c}], rank)
    /\ UNCHANGED <<game, now, source, lineBase, clean, cli>>

\* The time to the next instant at which the clock is read.
SampleStep(g, t) ==
    IF Since(g, t) = UiEarly
    THEN g.Duration * TicksPerSecond - 1 - UiEarly
    ELSE 1

UiTimePasses ==
    /\ ~ui.quit
    /\ game.IsStarted
    /\ Since(game, now) < game.Duration * TicksPerSecond + UiOver
    /\ now' = now + SampleStep(game, now)
    /\ UNCHANGED <<game, source, lineBase, clean, cli, ui>>

UiNext ==
    \/ \E char \in Keys : UiKeyCharacter(char)
    \/ UiKeyBackspace
    \/ UiKeyEnter
    \/ UiKeyQuit
    \/ UiTick
    \/ \E c \in ui.cmds : \E delivered \in BOOLEAN : \E rank \in 0..MaxRank :
          UiScoreSubmitted(c, delivered, rank)
    \/ \E c \in ui.cmds : \E rank \in 0..MaxRank : UiUserRank(c, rank)
    \/ UiTimePasses

\* The runtime delivers a scheduled tick, and the wall clock goes on.
SpecUi ==
    UiInit /\ [][UiNext]_vars /\ WF_vars(UiTick) /\ WF_vars(UiTimePasses)

\* The runs of the shortest duration.  Their results are never submitted,
\* so no command is ever under way and the steps are those of the keys, of
\* the ticks and of the clock.
UiRunInit ==
    /\ source \in UiSources
    /\ cli = [cmd |-> "start", duration |-> MinDuration, err |-> FALSE]
    /\ game = runTypingTest(MinDuration, source).game
    /\ \E a \in BOOLEAN : ui = NewModel(MinDuration, a)
    /\ now = 0
    /\ lineBase = 0
    /\ clean = TRUE

UiRunNext ==
    \/ \E char \in Keys : UiKeyCharacter(char)
    \/ UiKeyBackspace
    \/ UiKeyEnter
    \/ UiKeyQuit
    \/ UiTick
    \/ UiTimePasses

SpecUiRun ==
    UiRunInit /\ [][UiRunNext]_vars /\ WF_vars(UiTick) /\ WF_vars(UiTimePasses)

----------------------------------------------------------------------------
(* Properties *)

\* The elapsed time since the session start has reached the configured
\* duration (stated on the clock, not through IsTimeUp).
TimeReached == game.IsStarted /\ now - game.StartTime >= game.Duration * TicksPerSecond

FirstLine == game.DisplayLines[1]

\* h has the cursor, the error state, the consumption and the window of g.
SameTyping(g, h) ==
    /\ h.CurrentPos = g.CurrentPos
    /\ h.GlobalPos = g.GlobalPos
    /\ h.Errors = g.Errors
    /\ h.TotalErrorsMade = g.TotalErrorsMade
    /\ h.WordsTyped = g.WordsTyped
    /\ h.DisplayLines = g.DisplayLines

\* C1: once the elapsed time has reached the duration it stays reached, and
\* every AddCharacter call then leaves the cursor, the error state, the
\* consumption and the window unchanged and leaves IsFinished true.
C1_AddCharacterAfterTimeUp ==
    /\ [](TimeReached =>
            \A c \in Keys :
                LET h == AddCharacter(game, c, now, source)
                IN  SameTyping(game, h) /\ h.IsFinished)
    /\ [][TimeReached => TimeReached']_vars

\* Time is up and an AddCharacter call has marked the session finished, with
\* typed input and an error mark left in place.
C1_Witness ==
    /\ TimeReached
    /\ game.IsFinished
    /\ game.GlobalPos > 0
    /\ game.Errors # {}

\* C2: once time is up (or the session is finished) a RemoveCharacter call
\* changes neither the cursor nor the error marks, so the statistics stay
\* what they were.
C2_RemoveCharacterRejectedAfterTimeUp ==
    (TimeReached \/ game.IsFinished) =>
        LET h == RemoveCharacter(game)
        IN  /\ h.CurrentPos = game.CurrentPos
            /\ h.GlobalPos = game.GlobalPos
            /\ h.Errors = game.Errors
            /\ GetStats(h, now) = GetStats(game, now)

\* C3: a character typed on a character of the line, before time is up,
\* moves both positions by one, records a mistake (at the position typed
\* at) exactly when it differs from the expected character, and advances no
\* line.
C3_MidLineCharacter ==
    (~TimeReached /\ game.CurrentPos < Len(FirstLine)) =>
        \A c \in Keys :
            LET h == AddCharacter(game, c, now, source)
                mistake == c # FirstLine[game.CurrentPos + 1]
            IN  /\ h.CurrentPos = game.CurrentPos + 1
                /\ h.GlobalPos = game.GlobalPos + 1
                /\ mistake =>
                     /\ game.GlobalPos \notin game.Errors
                     /\ h.Errors = game.Errors \cup {game.GlobalPos}
                     /\ h.TotalErrorsMade = game.TotalErrorsMade + 1
                /\ ~mistake =>
                     /\ h.Errors = game.Errors
                     /\ h.TotalErrorsMade = game.TotalErrorsMade
                /\ h.WordsTyped = game.WordsTyped
                /\ h.DisplayLines = game.DisplayLines
                /\ h.AllWords = game.AllWords

\* The space between the first two words of the line was typed, correctly,
\* and no line advance happened.
C3_Witness ==
    /\ FirstLine[2] = Space
    /\ game.UserInput = <<"a", Space>>
    /\ game.CurrentPos = 2
    /\ game.GlobalPos = 2
    /\ game.Errors = {}
    /\ game.WordsTyped = 0
    /\ ~TimeReached

\* C4: with the cursor just past the end of the line and time not up, a
\* character other than the space changes nothing, and the space advances
\* the line.
C4_EndOfLineNonSpace ==
    (~TimeReached /\ game.CurrentPos = Len(FirstLine)) =>
        /\ \A c \in Keys \ {Space} :
              LET h == AddCharacter(game, c, now, source)
              IN  SameTyping(game, h) /\ h.UserInput = game.UserInput
        /\ LET h == AddCharacter(game, Space, now, source)
           IN  /\ h.GlobalPos = game.GlobalPos + 1
               /\ h.CurrentPos = 0
               /\ h.WordsTyped > game.WordsTyped

\* The cursor is just past the end of the first line, time is not up, and a
\* character other than the expected one was typed without a mistake being
\* counted: it was typed at the end of the line.
C4_Witness ==
    /\ ~TimeReached
    /\ ~game.IsFinished
    /\ game.IsStarted
    /\ ~clean
    /\ game.TotalErrorsMade = 0
    /\ game.WordsTyped = 0
    /\ game.CurrentPos = Len(FirstLine)

\* C5: with the cursor just past the end of the line, HandleEnterKey leaves
\* the session exactly as AddCharacter(' ') does and returns true iff a line
\* advance happened; with the cursor on the line it returns false and
\* changes nothing.
C5_EnterSameAsSpace ==
    LET r == HandleEnterKey(game, now, source)
        h == AddCharacter(game, Space, now, source)
    IN  /\ game.CurrentPos = Len(FirstLine) =>
              /\ r.g = h
              /\ r.ret <=> Advanced(game, r.g)
        /\ game.CurrentPos < Len(FirstLine) =>
              /\ ~r.ret
              /\ r.g = game

\* C6: a character typed on the line and removed at once restores the
\* positions, the error marks and the window, and leaves the mistake counter
\* one higher if the character was a mistake; no step lowers the counter.
C6_TypeThenBackspace ==
    /\ []((~TimeReached /\ game.CurrentPos < Len(FirstLine)) =>
            \A c \in Keys :
                LET h == AddCharacter(game, c, now, source)
                    k == RemoveCharacter(h)
                    mistake == c # FirstLine[game.CurrentPos + 1]
                IN  /\ k.CurrentPos = game.CurrentPos
                    /\ k.GlobalPos = game.GlobalPos
                    /\ k.Errors = game.Errors
                    /\ k.DisplayLines = game.DisplayLines
                    /\ k.TotalErrorsMade =
                         game.TotalErrorsMade + (IF mistake THEN 1 ELSE 0))
    /\ [][game'.TotalErrorsMade >= game.TotalErrorsMade]_vars

\* A mistake was typed as the first character and removed: the marks are
\* gone, the counter is not.
C6_Witness ==
    /\ game.GlobalPos = 0
    /\ game.UserInput = << >>
    /\ game.Errors = {}
    /\ game.TotalErrorsMade = 1

\* C7: RemoveCharacter changes nothing at the start of a line, and it never
\* takes GlobalPos below its value right after the latest line advance, nor
\* changes the consumption or the window.
C7_BackspaceStaysOnLine ==
    LET h == RemoveCharacter(game)
    IN  /\ game.CurrentPos = 0 => h = game
        /\ game.GlobalPos >= lineBase
        /\ h.GlobalPos >= lineBase
        /\ h.WordsTyped = game.WordsTyped
        /\ h.DisplayLines = game.DisplayLines
        /\ h.AllWords = game.AllWords

\* After a line advance a mistake was typed on the new line and removed: the
\* cursor is back at the start of the line, where RemoveCharacter stops.
C7_Witness ==
    /\ lineBase > 0
    /\ game.WordsTyped > 0
    /\ game.CurrentPos = 0
    /\ game.GlobalPos = lineBase
    /\ clean = FALSE
    /\ game.TotalErrorsMade = 1
    /\ game.Errors = {}
    /\ game.UserInput = <<"a", Space, "b", Space>>

C9_ErrorKeysBelowGlobalPos ==
    /\ \A k \in game.Errors : 0 <= k /\ k < game.GlobalPos
    /\ game.GlobalPos \notin game.Errors

\* One mistake is still marked and another one was removed.
C9_Witness ==
    /\ game.Errors # {}
    /\ game.TotalErrorsMade > Cardinality(game.Errors)

\* C10: the cursor stays within the first display line and GlobalPos is
\* never negative.
C10_CursorWithinLine ==
    /\ 0 <= game.CurrentPos
    /\ game.CurrentPos <= Len(FirstLine)
    /\ game.GlobalPos >= 0

\* The cursor is back at the start of a line after a line advance, with a
\* mistake still marked on the line before.
C10_Witness ==
    /\ game.WordsTyped > 0
    /\ game.CurrentPos = 0
    /\ game.Errors # {}

\* C11: the display window has exactly LinesPerView lines, at construction
\* and after every line advance, also when the buffer ran out of words.
C11_WindowHasLinesPerView ==
    Len(game.DisplayLines) = LinesPerView

\* After some line advance the buffer ran out while the window was built:
\* the last line is an empty string.
C11_Witness ==
    /\ game.WordsTyped > 0
    /\ Len(game.DisplayLines) = LinesPerView
    /\ game.DisplayLines[1] # << >>
    /\ game.DisplayLines[LinesPerView] = << >>

\* C12: no line of the window is empty, and none was cut short by the end
\* of the buffer: the window is the one the buffer as it is now yields.
C12_WindowNeverDry ==
    /\ \A i \in 1..Len(game.DisplayLines) : game.DisplayLines[i] # << >>
    /\ game.DisplayLines = generateDisplayLines(game).DisplayLines

\* C13: a word longer than CharsPerLine costs one empty line slot and is
\* skipped: the window is never all empty, an empty line is followed by a
\* line with the next words, and every line advance consumes words.
C13_OverLongWordSkipped ==
    /\ [](\E i \in 1..LinesPerView : game.DisplayLines[i] # << >>)
    /\ [](\A i \in 1..(LinesPerView - 1) :
            game.DisplayLines[i] = << >> => game.DisplayLines[i + 1] # << >>)
    /\ [][Advanced(game, game') => game'.WordsTyped > game.WordsTyped]_vars

\* C14: the session starts in a step that accepts a character (GlobalPos
\* increases), at the time of that step, and once started IsStarted and
\* StartTime never change.
C14_LazyStartOnce ==
    [][/\ (~game.IsStarted /\ game'.IsStarted)
            => (game'.GlobalPos > game.GlobalPos /\ game'.StartTime = now)
       /\ game.IsStarted
            => (game'.IsStarted /\ game'.StartTime = game.StartTime)]_vars

C16_GetStatsRepeatable ==
    [][game' = game => GetStats(game', now') = GetStats(game, now)]_vars

\* C16 amended: with no session change between two GetStats calls, the
\* records are the same if at the first call the session has not started or
\* its time is up; for a running session all fields but TimeElapsed and WPM
\* are the same.
C16_GetStatsRepeatableWhenNotRunning ==
    [][game' = game =>
        LET a == GetStats(game, now)
            b == GetStats(game', now')
        IN  /\ (~game.IsStarted \/ IsTimeUp(game, now)) => b = a
            /\ b.Accuracy = a.Accuracy
            /\ b.CharactersTyped = a.CharactersTyped
            /\ b.CorrectChars = a.CorrectChars
            /\ b.TotalChars = a.TotalChars
            /\ b.IsComplete = a.IsComplete
            /\ b.UncorrectedErrors = a.UncorrectedErrors]_vars

\* The clock went on after time was up, with characters typed.
C16_Witness ==
    /\ game.IsStarted
    /\ Since(game, now) > game.Duration * TicksPerSecond
    /\ game.GlobalPos > 0
    /\ GetStats(game, now).TimeElapsed = game.Duration * TicksPerSecond

\* C17: once time is up, TimeElapsed is the configured duration, however
\* late GetStats is called, and WPM * Duration = 12 * GlobalPos.
C17_StatsAfterTimeUp ==
    TimeReached =>
        LET st == GetStats(game, now)
        IN  /\ st.TimeElapsed = game.Duration * TicksPerSecond
            /\ st.WPM.num * game.Duration = 12 * game.GlobalPos * st.WPM.den

\* 5 accepted characters in a 10 s test, read after the 10 s: WPM 6.
C17_Witness ==
    /\ TimeReached
    /\ Since(game, now) > game.Duration * TicksPerSecond
    /\ game.Duration = 10
    /\ game.GlobalPos = 5
    /\ game.TotalErrorsMade > 0
    /\ GetStats(game, now).WPM = Ratio(6, 1)

C19_RemainingTime ==
    LET r == GetRemainingTime(game, now)
        whole == CHOOSE n \in 0..Since(game, now) :
                    /\ n * TicksPerSecond <= Since(game, now)
                    /\ Since(game, now) < (n + 1) * TicksPerSecond
    IN  /\ r >= 0
        /\ ~game.IsStarted => r = game.Duration
        /\ game.IsStarted =>
              r = IF game.Duration >= whole THEN game.Duration - whole ELSE 0
        /\ IsTimeUp(game, now) => r = 0

\* A started session read a whole second after its time was up, where the
\* duration less the seconds elapsed is negative.
C19_Witness ==
    /\ game.IsStarted
    /\ Since(game, now) >= (game.Duration + 1) * TicksPerSecond
    /\ GetRemainingTime(game, now) = 0

\* C20: a session exists only with a duration of 10 to 300 seconds, the one
\* asked for; either command run with a duration below 10 or above 300
\* returns an error and creates no session.
C20_DurationValidated ==
    /\ game # NoSession =>
          /\ game.Duration >= 10
          /\ game.Duration <= 300
          /\ game.Duration = cli.duration
          /\ ~cli.err
    /\ (cli.cmd # "none" /\ (cli.duration < 10 \/ cli.duration > 300)) =>
          /\ cli.err
          /\ game = NoSession

\* The start command was run with 301 seconds and returned its error.
C20_Witness ==
    /\ cli.cmd = "start"
    /\ cli.duration = 301
    /\ cli.err
    /\ game = NoSession

\* C21: a score submission is dispatched only for an authenticated user, a
\* 60-second run and a final accuracy of at least 85, and a results screen
\* of a run below 85 never shows a submission error as the rank.
C21_OnlyAccurateRunsSubmitted ==
    /\ \A c \in ui.cmds :
          c.kind = "submitScore" =>
             /\ ui.authenticated
             /\ c.duration = 60
             /\ c.stats.Accuracy.num >= 85 * c.stats.Accuracy.den
    /\ (ui.showResults /\ RankShown(ui) = "error") =>
          ui.finalStats.Accuracy.num >= 85 * ui.finalStats.Accuracy.den

\* The words on a line of single-spaced words.
WordsOn(line) ==
    IF line = << >> THEN 0
    ELSE Cardinality({i \in 1..Len(line) : line[i] = Space}) + 1

\* g after a line advance from the current state.
AdvancedFrom(h) ==
    /\ h.WordsTyped = game.WordsTyped + WordsOn(FirstLine)
    /\ h.GlobalPos = game.GlobalPos + 1
    /\ h.CurrentPos = 0
    /\ h.Errors = game.Errors
    /\ h.TotalErrorsMade = game.TotalErrorsMade
    /\ h.DisplayLines =
          PadLines(FillLines(game.AllWords, h.WordsTyped, 0, << >>))

\* C22: at the end of the first line and before time is up, a space and
\* Enter each consume the words of that line, add 1 to GlobalPos, set
\* CurrentPos to 0, add no error and regenerate the window from the new
\* WordsTyped.
C22_LineAdvance ==
    (game.CurrentPos = Len(FirstLine) /\ ~TimeReached) =>
        /\ AdvancedFrom(AddCharacter(game, Space, now, source))
        /\ HandleEnterKey(game, now, source).ret
        /\ AdvancedFrom(HandleEnterKey(game, now, source).g)

\* The cursor is at the end of a line of two words, with a mistake marked,
\* and the space takes the session to the next line.
C22_Witness ==
    /\ game.CurrentPos = Len(FirstLine)
    /\ WordsOn(FirstLine) = 2
    /\ game.Errors # {}
    /\ ~TimeReached
    /\ AddCharacter(game, Space, now, source).WordsTyped = game.WordsTyped + 2

\* The words of the buffer of g not consumed in h.
Unconsumed(g, h) == Len(g.AllWords) - h.WordsTyped

\* C23 as stated: a line advance appends exactly 100 words when at most 50
\* words of the buffer are unconsumed, leaves the buffer alone otherwise,
\* and at least 50 unconsumed words remain after it.
C23_GrowthAtFifty ==
    [][Advanced(game, game') =>
         /\ Len(game'.AllWords) =
               IF Unconsumed(game, game') <= 50
               THEN Len(game.AllWords) + 100
               ELSE Len(game.AllWords)
         /\ Unconsumed(game', game') >= 50]_vars

\* C23 amended: a line advance appends exactly 100 words, after the words
\* there are, when fewer than 50 words of the buffer are unconsumed, leaves
\* the buffer alone otherwise (also at exactly 50), and at least 50
\* unconsumed words remain after it.
C23_GrowthBelowFifty ==
    [][Advanced(game, game') =>
         /\ game'.AllWords =
               IF Unconsumed(game, game') < 50
               THEN game.AllWords \o GenerateWords(source, Len(game.AllWords), 100)
               ELSE game.AllWords
         /\ Unconsumed(game', game') >= 50]_vars

\* The buffer has grown once, at a line advance.
C23_Witness ==
    /\ Len(game.AllWords) = 300
    /\ game.CurrentPos = 0
    /\ game.WordsTyped > 150

\* The words of a line, cut at every space: two spaces in a row, or a space
\* at either end, yield an empty word.
RECURSIVE SplitWords(_, _, _)
SplitWords(line, word, words) ==
    IF line = << >> THEN Append(words, word)
    ELSE IF Head(line) = Space
         THEN SplitWords(Tail(line), << >>, Append(words, word))
         ELSE SplitWords(Tail(line), Append(word, Head(line)), words)

\* The words of the window, line after line.
RECURSIVE WindowWords(_)
WindowWords(lines) ==
    IF lines = << >> THEN << >>
    ELSE (IF Head(lines) = << >> THEN << >>
          ELSE SplitWords(Head(lines), << >>, << >>))
         \o WindowWords(Tail(lines))

\* C24: the words of the window, read line after line, are the words of the
\* buffer from index WordsTyped on, in order and separated by one space
\* each, and WordsTyped is at most the length of the buffer.
C24_WindowIsBufferSlice ==
    LET w == WindowWords(game.DisplayLines)
    IN  /\ game.WordsTyped <= Len(game.AllWords)
        /\ game.WordsTyped + Len(w) <= Len(game.AllWords)
        /\ \A k \in 1..Len(w) : w[k] = game.AllWords[game.WordsTyped + k]

\* After a line advance by an odd number of words the window starts with
\* the second word of the word list.
C24_Witness ==
    /\ game.WordsTyped = 17
    /\ WindowWords(game.DisplayLines)[1] = <<"b", "a">>
    /\ Len(WindowWords(game.DisplayLines)) = 51

\* The window generated from the session as it is.
Generated == generateDisplayLines(game).DisplayLines

\* The index in the buffer (0-based) of the first word after line i of the
\* generated window.
NextWordIndex(i) == game.WordsTyped + Len(WindowWords(SubSeq(Generated, 1, i)))

\* C25: every generated line ends because the buffer is exhausted or because
\* the next word, with its separating space if the line is not empty, would
\* make the line longer than 50 characters.
C25_GreedyPacking ==
    \A i \in 1..Len(Generated) :
        \/ NextWordIndex(i) = Len(game.AllWords)
        \/ /\ NextWordIndex(i) < Len(game.AllWords)
           /\ Len(Generated[i]) + (IF Generated[i] = << >> THEN 0 ELSE 1)
                + Len(game.AllWords[NextWordIndex(i) + 1]) > 50

\* Lines that the next word would overflow by one character, after a line
\* advance: the last word placed fills the line exactly.
C25_Witness ==
    /\ game.WordsTyped > 0
    /\ Len(Generated[1]) = 50
    /\ NextWordIndex(1) < Len(game.AllWords)

\* C26: every line of the window has at most 50 characters, also when the
\* buffer holds words longer than that.
C26_LinesWithinBudget ==
    \A i \in 1..Len(game.DisplayLines) : Len(game.DisplayLines[i]) <= 50

\* The window was generated with a word of more than 50 characters next in
\* the buffer.
C26_Witness ==
    /\ game.WordsTyped > 0
    /\ game.WordsTyped < Len(game.AllWords)
    /\ Len(game.AllWords[game.WordsTyped + 1]) > 50
    /\ \A i \in 1..Len(game.DisplayLines) : Len(game.DisplayLines[i]) <= 50

\* C27: a started session leads to the results view, unless the user quits
\* or restarts; the tick at or after time-up captures the statistics of that
\* moment, and while the results are shown the captured statistics do not
\* change and no tick is scheduled.
C27_ResultsEventuallyShown ==
    /\ (game.IsStarted /\ ~ui.quit)
          ~> (ui.showResults \/ ui.quit \/ ~game.IsStarted)
    /\ []((TimeReached /\ ~ui.showResults /\ ui.ticks > 0) =>
             /\ tickMsg(ui, game, now).showResults
             /\ tickMsg(ui, game, now).finalStats = GetStats(game, now))
    /\ [][(~ui.showResults /\ ui'.showResults) =>
             ui'.finalStats = GetStats(game, now)]_vars
    /\ [][(ui.showResults /\ ui'.showResults) =>
             /\ ui'.finalStats = ui.finalStats
             /\ ui'.ticks <= ui.ticks]_vars

\* The results of a run in which characters were typed are shown, and no
\* tick is scheduled any more.
C27_Witness ==
    /\ ui.showResults
    /\ ui.finalStats.CharactersTyped > 0
    /\ ui.finalStats = GetStats(game, now)
    /\ ui.ticks = 0
    /\ ~ui.quit

\* C28: at a line advance the new first and second lines are the previous
\* second and third lines.
C28_SlidingWindow ==
    [][Advanced(game, game') =>
         /\ game'.DisplayLines[1] = game.DisplayLines[2]
         /\ game'.DisplayLines[2] = game.DisplayLines[3]]_vars

\* C29: the CorrectChars that GetStats reports is at least 0 and at most
\* CharactersTyped.
C29_CorrectCharsInRange ==
    LET st == GetStats(game, now)
    IN  0 <= st.CorrectChars /\ st.CorrectChars <= st.CharactersTyped

\* C30: the message of a command that an earlier run dispatched changes
\* neither userRank, submitting nor submitError of the current run.
C30_LateResultsIgnored ==
    [][(\E c \in ui.cmds :
           c.run # ui.run /\ c \notin ui'.cmds /\ ui'.run = ui.run) =>
         /\ ui'.userRank = ui.userRank
         /\ ui'.submitting = ui.submitting
         /\ ui'.submitError = ui.submitError]_vars

====
